---------------------------- MODULE Spec2Model ----------------------------
(***************************************************************************)
(* Model of src-tauri/src/lib.rs: the Tauri command get_environment, which *)
(* snapshots the process environment, defaults TERM, COLORTERM and LANG    *)
(* when they are absent and, when HOME is set, prepends the user's bin     *)
(* directories to PATH.                                                    *)
(*                                                                         *)
(* Spec      : NumInvocations concurrent invocations of the command, each  *)
(*             stepping through the statements of the function on its own  *)
(*             local map, all reading one process environment.             *)
(* SpecIter  : the command applied repeatedly, each returned map being the *)
(*             process environment of the next application.                *)
(***************************************************************************)
EXTENDS Naturals, Sequences, FiniteSets, TLC

VARIABLES
    ambient,    \* the process environment: name -> OsString
    pc,         \* pc[i]: position of invocation i inside get_environment
    env,        \* env[i]: the local `env` HashMap of invocation i
    result,     \* result[i]: the map invocation i returned
    applied     \* SpecIter: outcomes of successive applications

vars == <<ambient, pc, env, result, applied>>

(* ------------------------------ bounds -------------------------------- *)

NumInvocations == 2
MaxApply == 3

Invocations == 1..NumInvocations

(* ---------------------- the process environment ----------------------- *)

\* An OsString: arbitrary bytes; `valid` tells whether they are valid Unicode,
\* `text` is the text when they are.
Text(s) == [valid |-> TRUE, text |-> s]
NotUnicode == [valid |-> FALSE, text |-> ""]

KEYS == {"TERM", "COLORTERM", "LANG", "HOME", "PATH", "EDITOR"}

\* The values each variable may hold in the environments explored: empty, a
\* text, or bytes that are not Unicode; a variable may also be absent.
Options(k) ==
    CASE k = "TERM"      -> <<Text(""), Text("vt100"), NotUnicode>>
      [] k = "COLORTERM" -> <<Text(""), Text("24bit"), NotUnicode>>
      [] k = "LANG"      -> <<Text(""), Text("C"), NotUnicode>>
      [] k = "HOME"      -> <<Text(""), Text("/home/u"), NotUnicode>>
      [] k = "PATH"      -> <<Text(""), Text("/usr/bin"), NotUnicode>>
      [] k = "EDITOR"    -> <<Text("vi"), NotUnicode>>

AmbientOf(c) == [k \in {j \in KEYS : c[j] /= 0} |-> Options(k)[c[k]]]

AmbientEnvs ==
    {AmbientOf(c) : c \in {d \in [KEYS -> 0..3] : \A k \in KEYS : d[k] <= Len(Options(k))}}

(* --------------------------- HashMap helpers -------------------------- *)

EmptyMap == [k \in {} |-> ""]

contains_key(m, k) == k \in DOMAIN m

insert(m, k, v) == [j \in DOMAIN m \cup {k} |-> IF j = k THEN v ELSE m[j]]

\* m.entry(k).or_insert_with(|| v)
or_insert_with(m, k, v) == IF contains_key(m, k) THEN m ELSE insert(m, k, v)

\* m.get(k).cloned().unwrap_or_default()
get_or_default(m, k) == IF contains_key(m, k) THEN m[k] ELSE ""

\* [String]::join(sep)
RECURSIVE join(_, _)
join(parts, sep) ==
    IF parts = <<>> THEN ""
    ELSE IF Len(parts) = 1 THEN parts[1]
    ELSE parts[1] \o sep \o join(Tail(parts), sep)

(* ------------------- the statements of get_environment ---------------- *)

\* std::env::vars() panics on a key or value that is not valid Unicode.
vars_panics(E) == \E k \in DOMAIN E : ~E[k].valid

\* Mutant: variables whose value is empty are filtered out of the snapshot.
vars_collect_nonempty(E) == [k \in {j \in DOMAIN E : E[j].text /= ""} |-> E[k].text]

\* std::env::vars().collect()
vars_collect(E) == [k \in DOMAIN E |-> E[k].text]

\* Mutant: plain insert, overwriting a TERM the environment defines.
TermDefault_overwrite(m) == insert(m, "TERM", "xterm-256color")

TermDefault(m) == or_insert_with(m, "TERM", "xterm-256color")

ColortermDefault(m) == or_insert_with(m, "COLORTERM", "truecolor")

\* Mutant: the negation of the test is lost.
LangDefault_inverted(m) ==
    IF contains_key(m, "LANG") THEN insert(m, "LANG", "en_US.UTF-8") ELSE m

LangDefault(m) ==
    IF ~contains_key(m, "LANG") THEN insert(m, "LANG", "en_US.UTF-8") ELSE m

user_paths(home) == <<home \o "/.local/bin", home \o "/bin">>

\* Mutant: the user directories are appended after the original PATH.
new_path_appended(home, current_path) ==
    current_path \o ":" \o join(user_paths(home), ":")

\* Mutant: the original PATH is dropped.
new_path_replaced(home, current_path) == join(user_paths(home), ":") \o ":"

new_path(home, current_path) == join(user_paths(home), ":") \o ":" \o current_path

\* Mutant: the insert sits after the `if let`, so PATH is written even
\* without HOME.
PrependUserPaths_unguarded(m) ==
    insert(m, "PATH",
           IF contains_key(m, "HOME")
           THEN new_path(m["HOME"], get_or_default(m, "PATH"))
           ELSE get_or_default(m, "PATH"))

\* Mutant: HOME is read with unwrap_or_default, so the rule also runs
\* without HOME.
PrependUserPaths_home_default(m) ==
    insert(m, "PATH", new_path(get_or_default(m, "HOME"), get_or_default(m, "PATH")))

PrependUserPaths(m) ==
    IF contains_key(m, "HOME")
    THEN insert(m, "PATH", new_path(m["HOME"], get_or_default(m, "PATH")))
    ELSE m

\* The outcome of one whole call on process environment E.
Panic == [ok |-> FALSE, env |-> EmptyMap]
Returned(m) == [ok |-> TRUE, env |-> m]

get_environment(E) ==
    IF vars_panics(E) THEN Panic
    ELSE Returned(PrependUserPaths(LangDefault(ColortermDefault(TermDefault(vars_collect(E))))))

(* --------------------- Spec: concurrent invocations ------------------- *)

Init ==
    /\ ambient \in AmbientEnvs
    /\ pc = [i \in Invocations |-> "idle"]
    /\ env = [i \in Invocations |-> EmptyMap]
    /\ result = [i \in Invocations |-> EmptyMap]
    /\ applied = <<>>

\* Mutant: `env` is one map shared by all invocations, so a snapshot
\* replaces the map another invocation is building.
Invoke_shared_map(i) ==
    /\ pc[i] = "idle"
    /\ IF vars_panics(ambient)
       THEN /\ pc' = [pc EXCEPT ![i] = "panicked"]
            /\ env' = env
       ELSE /\ pc' = [pc EXCEPT ![i] = "term"]
            /\ env' = [j \in Invocations |->
                         IF j = i \/ pc[j] \in {"term", "colorterm", "lang", "path", "ret"}
                         THEN vars_collect(ambient) ELSE env[j]]
    /\ UNCHANGED <<ambient, result, applied>>

\* The frontend invokes the command; line 9 snapshots the environment.
Invoke(i) ==
    /\ pc[i] = "idle"
    /\ IF vars_panics(ambient)
       THEN /\ pc' = [pc EXCEPT ![i] = "panicked"]
            /\ env' = env
       ELSE /\ pc' = [pc EXCEPT ![i] = "term"]
            /\ env' = [env EXCEPT ![i] = vars_collect(ambient)]
    /\ UNCHANGED <<ambient, result, applied>>

TermStep(i) ==
    /\ pc[i] = "term"
    /\ env' = [env EXCEPT ![i] = TermDefault(env[i])]
    /\ pc' = [pc EXCEPT ![i] = "colorterm"]
    /\ UNCHANGED <<ambient, result, applied>>

ColortermStep(i) ==
    /\ pc[i] = "colorterm"
    /\ env' = [env EXCEPT ![i] = ColortermDefault(env[i])]
    /\ pc' = [pc EXCEPT ![i] = "lang"]
    /\ UNCHANGED <<ambient, result, applied>>

LangStep(i) ==
    /\ pc[i] = "lang"
    /\ env' = [env EXCEPT ![i] = LangDefault(env[i])]
    /\ pc' = [pc EXCEPT ![i] = "path"]
    /\ UNCHANGED <<ambient, result, applied>>

\* Mutant: the new PATH is also written to the process (std::env::set_var).
PathStep_set_var(i) ==
    /\ pc[i] = "path"
    /\ env' = [env EXCEPT ![i] = PrependUserPaths(env[i])]
    /\ ambient' = IF contains_key(env[i], "HOME")
                  THEN insert(ambient, "PATH", Text(PrependUserPaths(env[i])["PATH"]))
                  ELSE ambient
    /\ pc' = [pc EXCEPT ![i] = "ret"]
    /\ UNCHANGED <<result, applied>>

PathStep(i) ==
    /\ pc[i] = "path"
    /\ env' = [env EXCEPT ![i] = PrependUserPaths(env[i])]
    /\ pc' = [pc EXCEPT ![i] = "ret"]
    /\ UNCHANGED <<ambient, result, applied>>

\* Line 33: the local map is moved out to the caller.
Return(i) ==
    /\ pc[i] = "ret"
    /\ result' = [result EXCEPT ![i] = env[i]]
    /\ env' = [env EXCEPT ![i] = EmptyMap]
    /\ pc' = [pc EXCEPT ![i] = "done"]
    /\ UNCHANGED <<ambient, applied>>

\* The caller drops the returned map; the command can be invoked again.
Discard(i) ==
    /\ pc[i] = "done"
    /\ result' = [result EXCEPT ![i] = EmptyMap]
    /\ pc' = [pc EXCEPT ![i] = "idle"]
    /\ UNCHANGED <<ambient, env, applied>>

Next ==
    \E i \in Invocations :
        \/ Invoke(i)
        \/ TermStep(i)
        \/ ColortermStep(i)
        \/ LangStep(i)
        \/ PathStep(i)
        \/ Return(i)
        \/ Discard(i)

Spec == Init /\ [][Next]_vars

(* ------------------- SpecIter: repeated application ------------------- *)

\* The command runs in a process started with ambient.
FirstApply ==
    /\ applied = <<>>
    /\ applied' = <<get_environment(ambient)>>
    /\ UNCHANGED <<ambient, pc, env, result>>

\* The command runs in a process whose environment is the map the previous
\* application returned.
Reapply ==
    /\ applied /= <<>>
    /\ Len(applied) < MaxApply
    /\ applied[Len(applied)].ok
    /\ LET last == applied[Len(applied)].env
           E == [k \in DOMAIN last |-> Text(last[k])]
       IN  applied' = Append(applied, get_environment(E))
    /\ UNCHANGED <<ambient, pc, env, result>>

NextIter == FirstApply \/ Reapply

SpecIter == Init /\ [][NextIter]_vars

(* ------------------------------- claims -------------------------------- *)

Done(i) == pc[i] = "done"

Has(k) == k \in DOMAIN ambient

\* The text of variable k in the process environment.
Amb(k) == ambient[k].text

Defaulted == {"TERM", "COLORTERM", "LANG"}

DefaultOf(k) ==
    CASE k = "TERM"      -> "xterm-256color"
      [] k = "COLORTERM" -> "truecolor"
      [] k = "LANG"      -> "en_US.UTF-8"

\* The PATH prefix the claims name for a given HOME.
Prefix(home) == home \o "/.local/bin:" \o home \o "/bin:"

RECURSIVE Repeat(_, _)
Repeat(s, n) == IF n = 0 THEN "" ELSE s \o Repeat(s, n - 1)

\* C1: whenever an invocation returns and HOME is in the environment, the
\* returned PATH is HOME/.local/bin:HOME/bin:P, P being the environment's PATH
\* or the empty string when PATH is unset, and HOME is returned unchanged.
C1_PathPrepended ==
    \A i \in Invocations :
        (Done(i) /\ Has("HOME")) =>
            /\ "PATH" \in DOMAIN result[i]
            /\ result[i]["PATH"] = Prefix(Amb("HOME")) \o (IF Has("PATH") THEN Amb("PATH") ELSE "")
            /\ result[i]["HOME"] = Amb("HOME")

\* An invocation returned with HOME = /home/u and no PATH: trailing colon.
C1_Witness ==
    \E i \in Invocations :
        /\ Done(i) /\ Has("HOME") /\ ~Has("PATH") /\ Amb("HOME") = "/home/u"
        /\ result[i]["PATH"] = "/home/u/.local/bin:/home/u/bin:"

\* C2: for TERM, COLORTERM and LANG, a returned map carries the environment's
\* own value when the environment defines the variable (whatever the value),
\* and the default when it does not.
C2_DefaultOnlyWhenAbsent ==
    \A i \in Invocations : \A k \in Defaulted :
        Done(i) =>
            /\ k \in DOMAIN result[i]
            /\ result[i][k] = (IF Has(k) THEN Amb(k) ELSE DefaultOf(k))

\* An invocation returned with TERM kept from the environment and LANG defaulted.
C2_Witness ==
    \E i \in Invocations :
        /\ Done(i) /\ Has("TERM") /\ Amb("TERM") = "vt100" /\ ~Has("LANG")
        /\ result[i]["TERM"] = "vt100" /\ result[i]["LANG"] = "en_US.UTF-8"

\* C3 (as stated): a returned map always contains TERM, COLORTERM and LANG,
\* each with a non-empty value, also when the environment defines one of them
\* with an empty value.
C3_AlwaysNonEmpty ==
    \A i \in Invocations : \A k \in Defaulted :
        Done(i) => (k \in DOMAIN result[i] /\ result[i][k] /= "")

\* C3 (amended): a returned map always contains TERM, COLORTERM and LANG; the
\* value of each is non-empty unless the environment itself defines the
\* variable with an empty value, which is then returned as it is.
C3_PresentNonEmptyUnlessSetEmpty ==
    \A i \in Invocations : \A k \in Defaulted :
        Done(i) =>
            /\ k \in DOMAIN result[i]
            /\ (result[i][k] = "") <=> (Has(k) /\ Amb(k) = "")

\* An invocation returned an empty TERM taken from the environment next to a
\* defaulted, non-empty COLORTERM.
C3_Witness ==
    \E i \in Invocations :
        /\ Done(i) /\ Has("TERM") /\ Amb("TERM") = "" /\ ~Has("COLORTERM")
        /\ result[i]["TERM"] = "" /\ result[i]["COLORTERM"] /= ""

\* C4: whenever an invocation returns and HOME is not in the environment, the
\* returned PATH is the environment's PATH, and PATH is absent from the
\* returned map when the environment has none.
C4_PathUntouchedWithoutHome ==
    \A i \in Invocations :
        (Done(i) /\ ~Has("HOME")) =>
            IF Has("PATH")
            THEN "PATH" \in DOMAIN result[i] /\ result[i]["PATH"] = Amb("PATH")
            ELSE "PATH" \notin DOMAIN result[i]

\* An invocation returned without HOME and without PATH in the environment.
C4_Witness ==
    \E i \in Invocations :
        Done(i) /\ ~Has("HOME") /\ ~Has("PATH") /\ "PATH" \notin DOMAIN result[i]

\* C5: a returned map holds every variable of the environment other than PATH
\* with its value, and its keys are the environment's keys, TERM, COLORTERM,
\* LANG and, only when HOME is in the environment, PATH.
C5_PassThrough ==
    \A i \in Invocations :
        Done(i) =>
            /\ DOMAIN result[i] =
                   DOMAIN ambient \cup Defaulted \cup (IF Has("HOME") THEN {"PATH"} ELSE {})
            /\ \A k \in DOMAIN ambient \ {"PATH"} : result[i][k] = Amb(k)

\* An invocation returned an unrelated variable and an empty-valued HOME as
\* they were, with PATH introduced by the HOME rule.
C5_Witness ==
    \E i \in Invocations :
        /\ Done(i) /\ Has("EDITOR") /\ Has("HOME") /\ Amb("HOME") = "" /\ ~Has("PATH")
        /\ result[i]["EDITOR"] = "vi" /\ result[i]["HOME"] = ""
        /\ "PATH" \in DOMAIN result[i]

\* C7: no step of any invocation changes the process environment, and a step
\* of one invocation changes neither the map another invocation is building
\* nor a map another invocation has returned.
C7_NoSideEffect ==
    [][/\ ambient' = ambient
       /\ \A i \in Invocations :
            pc'[i] = pc[i] => (env'[i] = env[i] /\ result'[i] = result[i])]_vars

\* One invocation has returned a rewritten PATH while another is still
\* running, and the process environment still holds the original PATH.
C7_Witness ==
    \E i, j \in Invocations :
        /\ i /= j /\ Done(i) /\ pc[j] = "ret"
        /\ Has("HOME") /\ Has("PATH") /\ Amb("PATH") = "/usr/bin"
        /\ result[i]["PATH"] /= Amb("PATH")

\* What the specification says resolve yields on a text environment E.
ExpectedResult(E) ==
    [k \in DOMAIN E \cup Defaulted \cup (IF "HOME" \in DOMAIN E THEN {"PATH"} ELSE {}) |->
        IF k = "PATH" /\ "HOME" \in DOMAIN E
        THEN Prefix(E["HOME"]) \o (IF "PATH" \in DOMAIN E THEN E["PATH"] ELSE "")
        ELSE IF k \in DOMAIN E THEN E[k] ELSE DefaultOf(k)]

\* C8: under every interleaving, each invocation that returns returns resolve
\* of the environment it snapshotted, and invocations that saw the same
\* environment return the same map.
C8_Independent ==
    /\ \A i \in Invocations :
           Done(i) => result[i] = ExpectedResult([k \in DOMAIN ambient |-> Amb(k)])
    /\ \A i, j \in Invocations : (Done(i) /\ Done(j)) => result[i] = result[j]

\* Two invocations have both returned, with defaults and the PATH rule applied.
C8_Witness ==
    \E i, j \in Invocations :
        /\ i /= j /\ Done(i) /\ Done(j)
        /\ ~Has("TERM") /\ Has("HOME")
        /\ result[i] = result[j] /\ result[j]["TERM"] = "xterm-256color"

\* C9: no invocation ends in an error, whatever the process environment holds.
C9_Total == \A i \in Invocations : pc[i] /= "panicked"

(* ---------------------- claims on repeated application ----------------- *)

Applied(n) == applied[n].env

\* C6 (as stated): applying resolve to its own output changes nothing.
C6_Idempotent ==
    (Len(applied) >= 2 /\ applied[2].ok) => Applied(2) = Applied(1)

\* C6 (amended): applying resolve to its own output changes nothing when HOME
\* is absent; when HOME is present it changes PATH alone, which gets the two
\* user directories prepended once more.
C6_IdempotentExceptPath ==
    (Len(applied) >= 2 /\ applied[2].ok) =>
        IF Has("HOME")
        THEN /\ DOMAIN Applied(2) = DOMAIN Applied(1)
             /\ \A k \in DOMAIN Applied(1) \ {"PATH"} : Applied(2)[k] = Applied(1)[k]
             /\ Applied(2)["PATH"] = Prefix(Amb("HOME")) \o Applied(1)["PATH"]
        ELSE Applied(2) = Applied(1)

\* A second application without HOME that left the defaulted map as it was.
C6_Witness ==
    /\ Len(applied) >= 2 /\ applied[2].ok
    /\ ~Has("HOME") /\ ~Has("TERM") /\ Has("PATH")
    /\ Applied(2) = Applied(1) /\ Applied(2)["TERM"] = "xterm-256color"

\* C10: with HOME present, after n applications PATH is n copies of the prefix
\* followed by the original PATH, and every other key is as after the first
\* application; with HOME absent, later applications change nothing.
C10_PrefixDuplicated ==
    \A n \in 1..Len(applied) :
        applied[n].ok =>
            IF Has("HOME")
            THEN /\ DOMAIN Applied(n) = DOMAIN Applied(1)
                 /\ Applied(n)["PATH"] =
                        Repeat(Prefix(Amb("HOME")), n) \o (IF Has("PATH") THEN Amb("PATH") ELSE "")
                 /\ \A k \in DOMAIN Applied(1) \ {"PATH"} : Applied(n)[k] = Applied(1)[k]
            ELSE Applied(n) = Applied(1)

\* Three applications in a row: three copies of the prefix before /usr/bin.
C10_Witness ==
    /\ Len(applied) >= 3 /\ applied[3].ok
    /\ Has("HOME") /\ Amb("HOME") = "/home/u" /\ Has("PATH") /\ Amb("PATH") = "/usr/bin"
    /\ Applied(3)["PATH"] =
           "/home/u/.local/bin:/home/u/bin:/home/u/.local/bin:/home/u/bin:/home/u/.local/bin:/home/u/bin:/usr/bin"


=============================================================================
